---- MODULE Spec2Model ----
(***************************************************************************)
(* Model of docs-agent-v3: the SubagentCoordinator (bounded-concurrency    *)
(* batch runner), the DocumentationOrchestrator (six-phase pipeline), the  *)
(* local file analysis and the module identification.                      *)
(*                                                                         *)
(* Spec          one coordinator running consecutive run_parallel batches  *)
(* RunParallelSpec  one run_parallel call, under a fair event loop         *)
(* PipelineSpec  one run of DocumentationOrchestrator.run                  *)
(* AnalyzerSpec  one file record built by the file-analysis code           *)
(* ModulesSpec   one call of identify_modules                              *)
(* GraphSpec     one call of build_dependency_graph                        *)
(* FileRunSpec   one call of run_file_analysis                             *)
(***************************************************************************)
EXTENDS Integers, Sequences, FiniteSets, TLC

(***************************************************************************)
(* Bounds of the model.                                                    *)
(***************************************************************************)
MaxTasks == 3
MaxCap == 2
MaxBatches == 2

(***************************************************************************)
(* Values.  Python's None is the string "None"; an output the provider     *)
(* produced for a task is tagged with the task's name.                     *)
(***************************************************************************)
NoneVal == "None"
OutputOf(name) == "output:" \o name
ErrorOf(name) == "provider error:" \o name
CallbackError == "callback raised"

\* What one provider invocation (Runner.run) can do: return a final output,
\* return with final_output None, or raise.
ProviderOutcomes == {"ok", "none", "err"}

\* result.final_output of a returning invocation.
FinalOutput(name, outcome) ==
    IF outcome = "ok" THEN OutputOf(name) ELSE NoneVal

TaskName(i) == "task_" \o ToString(i)

SubagentResult(task_name, success, output, error) ==
    [task_name |-> task_name, success |-> success, output |-> output, error |-> error]

\* The result run_task builds from the outcome of its one provider invocation.
RunTaskResult(name, outcome) ==
    IF outcome = "err"
    THEN SubagentResult(name, FALSE, NoneVal, ErrorOf(name))
    ELSE SubagentResult(name, TRUE, FinalOutput(name, outcome), NoneVal)

\* What asyncio.gather(..., return_exceptions=True) holds for one awaitable:
\* the value it returned, or the exception it raised.
Returned(result) == [raised |-> FALSE, result |-> result, exc |-> NoneVal]
Raised(exc) == [raised |-> TRUE, result |-> SubagentResult(NoneVal, FALSE, NoneVal, NoneVal), exc |-> exc]
NotYet == [raised |-> FALSE, result |-> SubagentResult(NoneVal, FALSE, NoneVal, NoneVal), exc |-> "pending"]

VARIABLES
    max_concurrent,   \* SubagentCoordinator.max_concurrent
    semaphore,        \* free slots of SubagentCoordinator.semaphore
    tasks,            \* the batch given to run_parallel: sequence of task names
    progress_callback,\* "none" | "given": whether a callback was passed to run_parallel
    st,               \* per item: "waiting" (for a slot) | "running" (provider in flight) | "done"
    outcomeOf,        \* per item: the outcome of its provider invocation, "pending" before
    invocations,      \* per item: number of provider invocations started
    completed,        \* run_parallel's local counter
    cbCalls,          \* sequence of <<completed, total>> the callback was called with
    doneOrder,        \* item indices in completion order
    gathered,         \* per item: what gather holds for run_with_progress(task)
    final_results,    \* the list run_parallel returns
    returned,         \* run_parallel has returned
    batchNo           \* number of the current batch on this coordinator

VARIABLES
    pc,               \* position of DocumentationOrchestrator.run
    status,           \* per phase: "notrun" | "active" | "ok" | "failed"
    started,          \* the phases started, in order
    disk,             \* files written under OUTPUT_DIR / HANDOFF_DIR in this run
    discoveryOutage,  \* every provider invocation made during Discovery so far raised
    reconciled,       \* run_discovery's reconciled explorations
    handoff,          \* run_discovery's local handoff document
    discovery,        \* self.discovery
    file_analyses,    \* self.file_analyses
    module_count,     \* len(self.module_analysis.modules)
    documentation,    \* self.documentation
    examples,         \* run's local "examples"
    faqs,             \* run's local "faqs"
    failedPhase,      \* the phase whose exception ended the run
    raised,           \* the exception run() propagated to its caller
    leftover,         \* HANDOFF_DIR held the handoff files of a previous run when run() began
    loaded            \* per loading phase: where the handoff content it loaded came from

VARIABLES
    analyzer_pc,      \* "input": a file is about to be analysed; "done": its record is built
    file_name,        \* the keywords the lower-cased base name of the path contains
    content,          \* the file's text, by what the extraction patterns find in it
    language,         \* the language hint, NoneVal when absent
    llm_text,         \* the provider's text handed to parse_llm_analysis
    analysis          \* the FileAnalysisHandoff built for the file

VARIABLES
    modules_pc,       \* "input": identify_modules is about to be called; "done": it returned
    analyses,         \* the file analyses handed to identify_modules, in order
    modules           \* the list identify_modules returned

VARIABLES
    graph_pc,         \* "input": build_dependency_graph is about to be called; "done": it returned
    graph_analyses,   \* the file analyses handed to build_dependency_graph, in order
    edges             \* the list build_dependency_graph returned

VARIABLES
    run_pc,           \* position of run_file_analysis: "input" | "batches" | "done" | "raised"
    analyzable_files, \* run_file_analysis's analyzable_files
    file_contents,    \* its cache of file contents, by path
    analysis_tasks,   \* its list "tasks"
    batch_i,          \* the batch loop's i: tasks handed to the coordinator so far
    analysis_results  \* its list "results"

pipeVars == <<pc, status, started, disk, discoveryOutage, reconciled, handoff, discovery,
              module_count, documentation, examples, faqs, failedPhase, raised,
              leftover, loaded, file_analyses>>

coordVars == <<max_concurrent, semaphore, tasks, progress_callback, st, outcomeOf,
               invocations, completed, cbCalls, doneOrder, gathered, final_results,
               returned, batchNo>>

analyzerVars == <<analyzer_pc, file_name, content, language, llm_text, analysis>>

moduleVars == <<modules_pc, analyses, modules>>

graphVars == <<graph_pc, graph_analyses, edges>>

runVars == <<run_pc, analyzable_files, file_contents, analysis_tasks, batch_i,
             analysis_results>>

analysisVars == <<analyzerVars, moduleVars, graphVars, runVars>>

vars == <<coordVars, pipeVars, analysisVars>>

N == Len(tasks)
Items == 1..N
InFlight == {i \in Items : st[i] = "running"}

Batches == {[i \in 1..n |-> TaskName(i)] : n \in 0..MaxTasks}
Callbacks == {"none", "given"}

\* run_parallel entered with a batch: total = len(tasks), completed = 0, and one
\* run_with_progress coroutine per task handed to gather.
StartBatch(batch, cb) ==
    /\ tasks' = batch
    /\ progress_callback' = cb
    /\ st' = [i \in 1..Len(batch) |-> "waiting"]
    /\ outcomeOf' = [i \in 1..Len(batch) |-> "pending"]
    /\ invocations' = [i \in 1..Len(batch) |-> 0]
    /\ completed' = 0
    /\ cbCalls' = <<>>
    /\ doneOrder' = <<>>
    /\ gathered' = [i \in 1..Len(batch) |-> NotYet]
    /\ final_results' = <<>>
    /\ returned' = FALSE

\* A coordinator as __init__ leaves it, about to run its first batch.
CoordInit ==
    /\ max_concurrent \in 1..MaxCap
    /\ semaphore = max_concurrent
    /\ tasks \in Batches
    /\ progress_callback \in Callbacks
    /\ st = [i \in 1..Len(tasks) |-> "waiting"]
    /\ outcomeOf = [i \in 1..Len(tasks) |-> "pending"]
    /\ invocations = [i \in 1..Len(tasks) |-> 0]
    /\ completed = 0
    /\ cbCalls = <<>>
    /\ doneOrder = <<>>
    /\ gathered = [i \in 1..Len(tasks) |-> NotYet]
    /\ final_results = <<>>
    /\ returned = FALSE
    /\ batchNo = 1

CanAcquireAboveOne(sem) == sem > 1

CanAcquireUnbounded(sem) == TRUE

\* "async with self.semaphore": a slot may be taken only while one is free.
CanAcquire(sem) == sem > 0

\* run_task up to its await: take a slot, build the Agent, start Runner.run.
Acquire(i) ==
    /\ st[i] = "waiting"
    /\ CanAcquire(semaphore)
    /\ semaphore' = semaphore - 1
    /\ st' = [st EXCEPT ![i] = "running"]
    /\ invocations' = [invocations EXCEPT ![i] = @ + 1]
    /\ UNCHANGED <<max_concurrent, tasks, progress_callback, outcomeOf, completed, cbCalls,
                   doneOrder, gathered, final_results, returned, batchNo>>
    /\ UNCHANGED <<pipeVars, analysisVars>>

\* The value run_with_progress hands to gather: run_task's result, unless the
\* progress callback raised after the task completed.
RunWithProgress(result, cbRaises) ==
    IF cbRaises THEN Raised(CallbackError) ELSE Returned(result)

ProgressCountByIndex(cnt, i) == i

\* The count run_with_progress passes to the callback for item i: the counter
\* cnt as it stands after "completed += 1".
ProgressCount(cnt, i) == cnt

RetryOnError(outcome) == IF outcome = "err" THEN "waiting" ELSE "done"

\* Where an item stands once its invocation has ended: run_task returns a
\* result on the "try" path and on the "except" path alike, so the item is done.
AfterInvocation(outcome) == "done"

ReleaseOnSuccess(sem, outcome) == IF outcome = "err" THEN sem ELSE sem + 1

\* Leaving "async with self.semaphore", by either return: the slot is free again.
Release(sem, outcome) == sem + 1

\* The provider invocation of item i ends (returns or raises).  Everything up to
\* the return of run_with_progress runs without suspension: run_task builds its
\* result and leaves the "async with" (releasing the slot on either path),
\* completed is incremented and the callback called.
Finish(i, outcome, cbRaises) ==
    /\ st[i] = "running"
    /\ cbRaises => progress_callback = "given"
    /\ st' = [st EXCEPT ![i] = AfterInvocation(outcome)]
    /\ outcomeOf' = [outcomeOf EXCEPT ![i] = outcome]
    /\ semaphore' = Release(semaphore, outcome)
    /\ completed' = completed + 1
    /\ cbCalls' = IF progress_callback = "none" THEN cbCalls
                  ELSE Append(cbCalls, <<ProgressCount(completed + 1, i), N>>)
    /\ doneOrder' = Append(doneOrder, i)
    /\ gathered' = [gathered EXCEPT
                       ![i] = RunWithProgress(RunTaskResult(tasks[i], outcome), cbRaises)]
    /\ UNCHANGED <<max_concurrent, tasks, progress_callback, invocations, final_results,
                   returned, batchNo>>
    /\ UNCHANGED <<pipeVars, analysisVars>>

GatherByCompletion(g, order) == [k \in 1..Len(order) |-> g[order[k]]]

\* gather's list: one entry per awaitable, in the order the awaitables were given.
GatherResults(g, order) == [i \in 1..Len(order) |-> g[i]]

\* "Convert exceptions to SubagentResults".
ConvertResult(name, g) ==
    IF g.raised THEN SubagentResult(name, FALSE, NoneVal, g.exc) ELSE g.result

FinalResultsFailFast(batch, g, order) ==
    [i \in 1..Len(order) |->
        IF \E j \in 1..Len(order) : g[j].raised \/ ~g[j].result.success
        THEN SubagentResult(batch[i], FALSE, NoneVal, "batch failed")
        ELSE g[i].result]

\* The list run_parallel returns.
FinalResults(batch, g, order) ==
    [i \in 1..Len(order) |-> ConvertResult(batch[i], GatherResults(g, order)[i])]

\* gather completes once every run_with_progress has; run_parallel converts and returns.
Return ==
    /\ ~returned
    /\ \A i \in Items : st[i] = "done"
    /\ final_results' = FinalResults(tasks, gathered, doneOrder)
    /\ returned' = TRUE
    /\ UNCHANGED <<max_concurrent, semaphore, tasks, progress_callback, st, outcomeOf,
                   invocations, completed, cbCalls, doneOrder, gathered, batchNo>>
    /\ UNCHANGED <<pipeVars, analysisVars>>

\* The caller runs the next batch on the same coordinator.
NextBatch(batch, cb) ==
    /\ returned
    /\ batchNo < MaxBatches
    /\ batchNo' = batchNo + 1
    /\ StartBatch(batch, cb)
    /\ UNCHANGED <<max_concurrent, semaphore>>
    /\ UNCHANGED <<pipeVars, analysisVars>>


(***************************************************************************)
(* DocumentationOrchestrator.run: six phases, one after another.           *)
(***************************************************************************)
MaxDirs == 2
MaxModules == 1
MaxFaqs == 1

PhaseOrder == <<"Discovery", "FileAnalysis", "ModuleAnalysis", "Synthesis", "Examples", "FAQ">>
PhaseNames == {PhaseOrder[k] : k \in 1..Len(PhaseOrder)}
PhaseIndex(p) == CHOOSE k \in 1..Len(PhaseOrder) : PhaseOrder[k] = p

DiscoveryHandoffFile == "discovery_handoff.json"
ExplorationFile == "exploration_results.json"
FileAnalysisFile == "file_analysis_combined.json"
ModuleHandoffFile == "module_analysis_handoff.json"
ModuleDetailedFile == "module_analysis_detailed.json"
ReadmeFile == "README.md"
ApiReferenceFile == "API_REFERENCE.md"
ExamplesFile == "EXAMPLES.md"
FaqFile == "FAQ.md"

\* The files each phase writes.
ArtifactsOf(p) ==
    CASE p = "Discovery" -> {DiscoveryHandoffFile, ExplorationFile}
      [] p = "FileAnalysis" -> {FileAnalysisFile}
      [] p = "ModuleAnalysis" -> {ModuleHandoffFile, ModuleDetailedFile}
      [] p = "Synthesis" -> {ReadmeFile, ApiReferenceFile}
      [] p = "Examples" -> {ExamplesFile}
      [] p = "FAQ" -> {FaqFile}

\* Python's str(): str(None) is the text "None", not None.
Str(v) == IF v = NoneVal THEN "str(None)" ELSE v

NoDiscovery == [set |-> FALSE, summary |-> NoneVal]
NoReconciled == [insights |-> 0, failed_explorations |-> 0]
NoDocumentation ==
    [set |-> FALSE, overview |-> NoneVal, architecture |-> NoneVal, modules |-> <<>>,
     api_reference |-> NoneVal, getting_started |-> NoneVal, examples |-> <<>>]

\* The list of file records run_file_analysis returns.
FileAnalysisSet == "file analyses"

\* The phases that load a handoff file, and the file each loads.
LoadingPhases == {"ModuleAnalysis", "Synthesis", "FAQ"}
LoadedFile(p) == IF p = "ModuleAnalysis" THEN ExplorationFile ELSE ModuleDetailedFile
NothingLoaded == [p \in LoadingPhases |-> "not loaded"]

ContentOriginKept(file) ==
    IF leftover THEN "previous run" ELSE IF file \in disk THEN "this run" ELSE "absent"

\* Whose content a file holds: open(path, 'w') replaces what a previous run left.
ContentOrigin(file) ==
    IF file \in disk THEN "this run" ELSE IF leftover THEN "previous run" ELSE "absent"

\* "if os.path.exists(path): json.load(...)" in phase p.
Load(p) == loaded' = [loaded EXCEPT ![p] = ContentOrigin(LoadedFile(p))]

\* The pipeline variables while only the coordinator is exercised.
PipeIdle ==
    /\ pc = "idle"
    /\ status = [p \in PhaseNames |-> "notrun"]
    /\ started = <<>>
    /\ disk = {}
    /\ discoveryOutage = TRUE
    /\ reconciled = NoReconciled
    /\ handoff = NoDiscovery
    /\ discovery = NoDiscovery
    /\ module_count = 0
    /\ documentation = NoDocumentation
    /\ examples = <<>>
    /\ faqs = 0
    /\ failedPhase = NoneVal
    /\ raised = NoneVal
    /\ leftover = FALSE
    /\ loaded = NothingLoaded
    /\ file_analyses = NoneVal

\* The coordinator variables while only the pipeline is exercised.
CoordIdle ==
    /\ max_concurrent = 1
    /\ semaphore = 1
    /\ tasks = <<>>
    /\ progress_callback = "none"
    /\ st = <<>>
    /\ outcomeOf = <<>>
    /\ invocations = <<>>
    /\ completed = 0
    /\ cbCalls = <<>>
    /\ doneOrder = <<>>
    /\ gathered = <<>>
    /\ final_results = <<>>
    /\ returned = TRUE
    /\ batchNo = MaxBatches

\* run() entered: __init__ left every document None; Phase 1 begins.
PipeInit ==
    /\ pc = "D_explore"
    /\ status = [p \in PhaseNames |-> IF p = "Discovery" THEN "active" ELSE "notrun"]
    /\ started = <<"Discovery">>
    /\ disk = {}
    /\ discoveryOutage = TRUE
    /\ reconciled = NoReconciled
    /\ handoff = NoDiscovery
    /\ discovery = NoDiscovery
    /\ module_count = 0
    /\ documentation = NoDocumentation
    /\ examples = <<>>
    /\ faqs = 0
    /\ failedPhase = NoneVal
    /\ raised = NoneVal
    /\ leftover \in BOOLEAN
    /\ loaded = NothingLoaded
    /\ file_analyses = NoneVal

FatalPhasesWithoutSynthesis == {"Discovery", "FileAnalysis", "ModuleAnalysis"}

\* The phases whose "except" clause re-raises.
FatalPhases == {"Discovery", "FileAnalysis", "ModuleAnalysis", "Synthesis"}

NextPhaseSwapped(p) ==
    CASE p = "Synthesis" -> "FAQ"
      [] p = "FAQ" -> "Examples"
      [] p = "Examples" -> "Done"
      [] OTHER -> PhaseOrder[PhaseIndex(p) + 1]

\* The phase run() goes on to after phase p, "Done" after the last.
NextPhase(p) ==
    IF PhaseIndex(p) = Len(PhaseOrder) THEN "Done" ELSE PhaseOrder[PhaseIndex(p) + 1]

\* Where each phase begins.
EntryPc(p) ==
    CASE p = "Discovery" -> "D_explore"
      [] p = "FileAnalysis" -> "F_analyze"
      [] p = "ModuleAnalysis" -> "M_analyze"
      [] p = "Synthesis" -> "S_generate"
      [] p = "Examples" -> "E_generate"
      [] p = "FAQ" -> "Q_generate"
      [] OTHER -> "Done"

\* Still inside the same phase.
Goto(next) ==
    /\ pc' = next
    /\ UNCHANGED <<status, started, failedPhase, raised>>

\* run() leaves phase p's try block: how = "ok" when the body completed,
\* "failed" when it raised cause.  A fatal phase re-raises; otherwise run()
\* goes straight on to the next phase.
EndPhase(p, how, cause) ==
    IF how = "failed" /\ p \in FatalPhases
    THEN /\ pc' = "Failed"
         /\ status' = [status EXCEPT ![p] = "failed"]
         /\ failedPhase' = p
         /\ raised' = cause
         /\ UNCHANGED started
    ELSE LET q == NextPhase(p) IN
         /\ pc' = EntryPc(q)
         /\ status' = IF q = "Done" THEN [status EXCEPT ![p] = how]
                      ELSE [status EXCEPT ![p] = how, ![q] = "active"]
         /\ started' = IF q = "Done" THEN started ELSE Append(started, q)
         /\ UNCHANGED <<failedPhase, raised>>

OSErrorOn(file) == "OSError: " \o file

\* open(path, 'w') and the write: the file is there afterwards, or OSError.
WriteFile(file, ok) == IF ok THEN disk' = disk \cup {file} ELSE disk' = disk

----------------------------------------------------------------------------
(* Phase 1: run_discovery *)

ExploreName(k) == "explore_" \o ToString(k)

\* What run_parallel returns for a batch run without a progress callback, given
\* the outcome of each item's provider invocation.
BatchResults(names, outs) ==
    FinalResults(names,
                 [i \in 1..Len(names) |-> Returned(RunTaskResult(names[i], outs[i]))],
                 [i \in 1..Len(names) |-> i])

\* Python truthiness of an output.
Truthy(v) == v # NoneVal

\* reconcile_explorations: a result counts as an insight when it succeeded with
\* a non-empty output, as a failed exploration otherwise.
Reconcile(results) ==
    LET good == {i \in 1..Len(results) : results[i].success /\ Truthy(results[i].output)}
    IN [insights |-> Cardinality(good),
        failed_explorations |-> Len(results) - Cardinality(good)]

SynthesizeWithoutFallback(result) == Str(result.output)

\* synthesize_explorations: the summary text, from the one "synthesis" task.
SynthesizeExplorations(result) ==
    IF result.success THEN Str(result.output) ELSE "Synthesis failed: " \o result.error

\* The repository path does not exist: run_discovery raises ValueError.
DiscoveryPathMissing ==
    /\ pc = "D_explore"
    /\ EndPhase("Discovery", "failed", "ValueError: Repository path does not exist")
    /\ UNCHANGED <<disk, discoveryOutage, reconciled, handoff, discovery, module_count,
                   documentation, examples, faqs>>
    /\ UNCHANGED <<coordVars, analysisVars>>
    /\ UNCHANGED <<leftover, loaded, file_analyses>>

DiscoveryExploreSavingFirst(nd, outs) ==
    /\ pc = "D_explore"
    /\ reconciled' = Reconcile(BatchResults([k \in 1..nd |-> ExploreName(k)], outs))
    /\ discoveryOutage' = \A k \in 1..nd : outs[k] = "err"
    /\ Goto("D_synth")
    /\ disk' = disk \cup {DiscoveryHandoffFile}
    /\ UNCHANGED <<handoff, discovery, module_count, documentation, examples, faqs>>
    /\ UNCHANGED <<coordVars, analysisVars>>
    /\ UNCHANGED <<leftover, loaded, file_analyses>>

\* Local scan, then explore_directories over the directories and reconciliation.
DiscoveryExplore(nd, outs) ==
    /\ pc = "D_explore"
    /\ reconciled' = Reconcile(BatchResults([k \in 1..nd |-> ExploreName(k)], outs))
    /\ discoveryOutage' = \A k \in 1..nd : outs[k] = "err"
    /\ Goto("D_synth")
    /\ UNCHANGED <<disk, handoff, discovery, module_count, documentation, examples, faqs>>
    /\ UNCHANGED <<coordVars, analysisVars>>
    /\ UNCHANGED <<leftover, loaded, file_analyses>>

\* synthesize_explorations, then the handoff document is built.
DiscoverySynthesize(o) ==
    /\ pc = "D_synth"
    /\ discoveryOutage' = (discoveryOutage /\ o = "err")
    /\ handoff' = [set |-> TRUE,
                   summary |-> SynthesizeExplorations(RunTaskResult("synthesis", o))]
    /\ Goto("D_save_handoff")
    /\ UNCHANGED <<disk, reconciled, discovery, module_count, documentation, examples, faqs>>
    /\ UNCHANGED <<coordVars, analysisVars>>
    /\ UNCHANGED <<leftover, loaded, file_analyses>>

DiscoverySaveHandoff(ok) ==
    /\ pc = "D_save_handoff"
    /\ WriteFile(DiscoveryHandoffFile, ok)
    /\ IF ok THEN Goto("D_save_exploration")
       ELSE EndPhase("Discovery", "failed", OSErrorOn(DiscoveryHandoffFile))
    /\ UNCHANGED <<discoveryOutage, reconciled, handoff, discovery, module_count,
                   documentation, examples, faqs>>
    /\ UNCHANGED <<coordVars, analysisVars>>
    /\ UNCHANGED <<leftover, loaded, file_analyses>>

\* The second write; run_discovery then returns (its locals are gone) and run()
\* stores self.discovery.
DiscoverySaveExploration(ok) ==
    /\ pc = "D_save_exploration"
    /\ WriteFile(ExplorationFile, ok)
    /\ IF ok THEN /\ discovery' = handoff
                  /\ EndPhase("Discovery", "ok", NoneVal)
       ELSE /\ UNCHANGED discovery
            /\ EndPhase("Discovery", "failed", OSErrorOn(ExplorationFile))
    /\ reconciled' = NoReconciled
    /\ handoff' = NoDiscovery
    /\ UNCHANGED <<discoveryOutage, module_count, documentation, examples, faqs>>
    /\ UNCHANGED <<coordVars, analysisVars>>
    /\ UNCHANGED <<leftover, loaded, file_analyses>>

----------------------------------------------------------------------------
(* Phase 2: run_file_analysis *)

\* The batches are run and every outcome folded into a record; provider
\* failures are absorbed by the local fallback, so nothing raises here.
FileAnalysisAnalyze ==
    /\ pc = "F_analyze"
    /\ Goto("F_save")
    /\ UNCHANGED <<disk, discoveryOutage, reconciled, handoff, discovery, module_count,
                   documentation, examples, faqs>>
    /\ UNCHANGED <<coordVars, analysisVars>>
    /\ UNCHANGED <<leftover, loaded, file_analyses>>

FileAnalysisSave(ok) ==
    /\ pc = "F_save"
    /\ WriteFile(FileAnalysisFile, ok)
    /\ IF ok THEN /\ file_analyses' = FileAnalysisSet
                  /\ EndPhase("FileAnalysis", "ok", NoneVal)
       ELSE /\ UNCHANGED file_analyses
            /\ EndPhase("FileAnalysis", "failed", OSErrorOn(FileAnalysisFile))
    /\ UNCHANGED <<discoveryOutage, reconciled, handoff, discovery, module_count,
                   documentation, examples, faqs>>
    /\ UNCHANGED <<coordVars, analysisVars>>
    /\ UNCHANGED <<leftover, loaded>>

----------------------------------------------------------------------------
(* Phase 3: run_module_analysis *)

\* Modules identified, graph built, module and architecture tasks run.
ModuleAnalysisAnalyze(nm) ==
    /\ pc = "M_analyze"
    /\ module_count' = nm
    /\ Goto("M_save_handoff")
    /\ UNCHANGED <<disk, discoveryOutage, reconciled, handoff, discovery, documentation,
                   examples, faqs>>
    /\ UNCHANGED <<coordVars, analysisVars>>
    /\ Load("ModuleAnalysis")
    /\ UNCHANGED <<leftover, file_analyses>>

ModuleAnalysisSaveHandoff(ok) ==
    /\ pc = "M_save_handoff"
    /\ WriteFile(ModuleHandoffFile, ok)
    /\ IF ok THEN Goto("M_save_detailed")
       ELSE EndPhase("ModuleAnalysis", "failed", OSErrorOn(ModuleHandoffFile))
    /\ UNCHANGED <<discoveryOutage, reconciled, handoff, discovery, module_count,
                   documentation, examples, faqs>>
    /\ UNCHANGED <<coordVars, analysisVars>>
    /\ UNCHANGED <<leftover, loaded, file_analyses>>

ModuleAnalysisSaveDetailed(ok) ==
    /\ pc = "M_save_detailed"
    /\ WriteFile(ModuleDetailedFile, ok)
    /\ IF ok THEN EndPhase("ModuleAnalysis", "ok", NoneVal)
       ELSE EndPhase("ModuleAnalysis", "failed", OSErrorOn(ModuleDetailedFile))
    /\ UNCHANGED <<discoveryOutage, reconciled, handoff, discovery, module_count,
                   documentation, examples, faqs>>
    /\ UNCHANGED <<coordVars, analysisVars>>
    /\ UNCHANGED <<leftover, loaded, file_analyses>>

----------------------------------------------------------------------------
(* Phase 4: run_doc_synthesis and write_documentation_files *)

ModuleTaskName(k) == "module_" \o ToString(k)

\* A section's text: the task's output when the task succeeded, else the
\* locally generated text.
SectionContent(result, fallback) ==
    IF result.success THEN Str(result.output) ELSE fallback

ModuleSectionContent(r) ==
    IF r.success THEN Str(r.output) ELSE "Documentation for " \o r.task_name \o " pending."

\* "Assemble final documentation".
AssembleDocumentation(overview, arch, module_results, api, getting_started) ==
    [set |-> TRUE,
     overview |-> SectionContent(overview, "generated overview"),
     architecture |-> SectionContent(arch, "generated architecture"),
     modules |-> [k \in 1..Len(module_results) |-> ModuleSectionContent(module_results[k])],
     api_reference |-> SectionContent(api, "generated api reference"),
     getting_started |-> SectionContent(getting_started, "generated getting started"),
     examples |-> <<>>]

\* The five groups of tasks are run and the document assembled; run() stores it.
SynthesisGenerate(o1, o2, mouts, o3, o4) ==
    /\ pc = "S_generate"
    /\ documentation' =
          AssembleDocumentation(
              RunTaskResult("overview", o1),
              RunTaskResult("architecture", o2),
              BatchResults([k \in 1..module_count |-> ModuleTaskName(k)], mouts),
              RunTaskResult("api_reference", o3),
              RunTaskResult("getting_started", o4))
    /\ Goto("S_write")
    /\ UNCHANGED <<disk, discoveryOutage, reconciled, handoff, discovery, module_count,
                   examples, faqs>>
    /\ UNCHANGED <<coordVars, analysisVars>>
    /\ Load("Synthesis")
    /\ UNCHANGED <<leftover, file_analyses>>

\* write_documentation_files: README.md, then API_REFERENCE.md; at names the
\* write that raised, "ok" when none did.
SynthesisWrite(at) ==
    /\ pc = "S_write"
    /\ disk' = CASE at = "ok" -> disk \cup {ReadmeFile, ApiReferenceFile}
                 [] at = ApiReferenceFile -> disk \cup {ReadmeFile}
                 [] OTHER -> disk
    /\ IF at = "ok" THEN EndPhase("Synthesis", "ok", NoneVal)
       ELSE EndPhase("Synthesis", "failed", OSErrorOn(at))
    /\ UNCHANGED <<discoveryOutage, reconciled, handoff, discovery, module_count,
                   documentation, examples, faqs>>
    /\ UNCHANGED <<coordVars, analysisVars>>
    /\ UNCHANGED <<leftover, loaded, file_analyses>>

----------------------------------------------------------------------------
(* Phase 5: generate_examples and write_examples_file *)

ParsedLimit == 3

BaseExamples == <<"Quick Start", "API Usage", "Error Handling", "Configuration">>

\* generate_examples: four local examples, then up to ParsedLimit examples
\* parsed from the provider's text, or one placeholder when the provider raised.
GenerateExamples(o, k) ==
    BaseExamples \o
        (CASE o = "err" -> <<"Integration Example">>
           [] o = "ok" -> [j \in 1..k |-> "Parsed Example"]
           [] OTHER -> <<>>)

\* generate_examples returns its list, or raises.
ExamplesGenerate(o, k, raises) ==
    /\ pc = "E_generate"
    /\ IF raises
       THEN /\ UNCHANGED examples
            /\ EndPhase("Examples", "failed", "generate_examples raised")
       ELSE /\ examples' = GenerateExamples(o, k)
            /\ Goto("E_write")
    /\ UNCHANGED <<disk, discoveryOutage, reconciled, handoff, discovery, module_count,
                   documentation, faqs>>
    /\ UNCHANGED <<coordVars, analysisVars>>
    /\ UNCHANGED <<leftover, loaded, file_analyses>>

ExamplesWriteRewriting(ok) ==
    /\ pc = "E_write"
    /\ documentation' = [documentation EXCEPT !.examples = examples,
                                              !.overview = "overview with examples"]
    /\ WriteFile(ExamplesFile, ok)
    /\ IF ok THEN EndPhase("Examples", "ok", NoneVal)
       ELSE EndPhase("Examples", "failed", OSErrorOn(ExamplesFile))
    /\ UNCHANGED <<discoveryOutage, reconciled, handoff, discovery, module_count,
                   examples, faqs>>
    /\ UNCHANGED <<coordVars, analysisVars>>
    /\ UNCHANGED <<leftover, loaded, file_analyses>>

\* "self.documentation.examples = examples", then write_examples_file(examples).
ExamplesWrite(ok) ==
    /\ pc = "E_write"
    /\ documentation' = [documentation EXCEPT !.examples = examples]
    /\ WriteFile(ExamplesFile, ok)
    /\ IF ok THEN EndPhase("Examples", "ok", NoneVal)
       ELSE EndPhase("Examples", "failed", OSErrorOn(ExamplesFile))
    /\ UNCHANGED <<discoveryOutage, reconciled, handoff, discovery, module_count,
                   examples, faqs>>
    /\ UNCHANGED <<coordVars, analysisVars>>
    /\ UNCHANGED <<leftover, loaded, file_analyses>>

----------------------------------------------------------------------------
(* Phase 6: generate_faqs *)

\* The one "faq_generation" task ends; FAQ.md is written and the questions
\* parsed out of a successful output (nq of them).
FaqGenerate(o, nq, ok) ==
    /\ pc = "Q_generate"
    /\ WriteFile(FaqFile, ok)
    /\ faqs' = IF ok /\ RunTaskResult("faq_generation", o).success /\ o = "ok" THEN nq ELSE 0
    /\ IF ok THEN EndPhase("FAQ", "ok", NoneVal)
       ELSE EndPhase("FAQ", "failed", OSErrorOn(FaqFile))
    /\ UNCHANGED <<discoveryOutage, reconciled, handoff, discovery, module_count,
                   documentation, examples>>
    /\ UNCHANGED <<coordVars, analysisVars>>
    /\ Load("FAQ")
    /\ UNCHANGED <<leftover, file_analyses>>

----------------------------------------------------------------------------
(***************************************************************************)
(* File analysis: analyze_file_locally, parse_llm_analysis and the         *)
(* placeholder record of analyze_files_batch.                              *)
(***************************************************************************)
MaxLlmInteger == 11

MinScore == 1
MaxScore == 10
BaselineScore == 5
ClassThreshold == 5
FunctionThreshold == 10
ImportThreshold == 15
LongFile == 500
ShortFile == 50
PlaceholderScore == 1

\* The language families with extraction patterns.
SupportedLanguages == {"python", "javascript", "typescript"}
Languages == SupportedLanguages \cup {"ruby", NoneVal}

\* The keywords the purpose inference looks for in the base name.
Keywords == {"test", "config", "settings", "model", "util", "helper",
             "main", "app", "index", "api", "route"}

\* Base names, by the keywords they contain: none, one, or two of them.
FileNames ==
    {{}} \cup {{k} : k \in Keywords} \cup {{"test", "config"}, {"model", "api"}}

\* A text, by what the patterns of a supported family find in it: the number
\* of lines content.split('\n') yields and of matches of the import, class,
\* top-level function and constant patterns; exports counts the public
\* top-level functions (python) or the export declarations (javascript).
Contents ==
    [lines : {1, ShortFile - 1, ShortFile, LongFile, LongFile + 1},
     imports : {ImportThreshold, ImportThreshold + 1},
     classes : {0, ClassThreshold, ClassThreshold + 1},
     functions : {0, FunctionThreshold, FunctionThreshold + 1},
     exports : {0}, constants : {0}]
    \cup
    [lines : {ShortFile}, imports : {0}, classes : {0}, functions : {0, 1},
     exports : {0, 1}, constants : {0, 1}]

\* A list of n extracted entries.
Found(n) == [k \in 1..n |-> k]

NoClamp(v) == v

\* max(1, min(10, v))
Clamp(v) ==
    LET low == IF v < MaxScore THEN v ELSE MaxScore
    IN IF low > MinScore THEN low ELSE MinScore

\* The lists the extraction fills, whatever the language hint.
ExtractAnyLanguage(text, lang) ==
    [imports |-> Found(text.imports),
     classes |-> Found(text.classes),
     functions |-> Found(text.functions),
     exports |-> Found(text.classes + text.exports),
     constants |-> Found(text.constants)]

\* The lists the extraction fills: the python branch, the javascript /
\* typescript branch (no constants), and nothing for any other hint.
Extract(text, lang) ==
    CASE lang = "python" ->
            [imports |-> Found(text.imports),
             classes |-> Found(text.classes),
             functions |-> Found(text.functions),
             exports |-> Found(text.classes + text.exports),
             constants |-> Found(text.constants)]
      [] lang \in {"javascript", "typescript"} ->
            [imports |-> Found(text.imports),
             classes |-> Found(text.classes),
             functions |-> Found(text.functions),
             exports |-> Found(text.exports),
             constants |-> <<>>]
      [] OTHER ->
            [imports |-> <<>>, classes |-> <<>>, functions |-> <<>>,
             exports |-> <<>>, constants |-> <<>>]

LocalComplexityInclusive(nclasses, nfunctions, nimports, nlines) ==
    LET s1 == BaselineScore + (IF nclasses > ClassThreshold THEN 1 ELSE 0)
        s2 == s1 + (IF nfunctions > FunctionThreshold THEN 1 ELSE 0)
        s3 == s2 + (IF nimports > ImportThreshold THEN 1 ELSE 0)
        s4 == s3 + (IF nlines >= LongFile THEN 1 ELSE 0)
        s5 == s4 - (IF nlines <= ShortFile THEN 1 ELSE 0)
    IN Clamp(s5)

\* "Calculate complexity score based on various factors", statement by statement.
LocalComplexity(nclasses, nfunctions, nimports, nlines) ==
    LET s1 == BaselineScore + (IF nclasses > ClassThreshold THEN 1 ELSE 0)
        s2 == s1 + (IF nfunctions > FunctionThreshold THEN 1 ELSE 0)
        s3 == s2 + (IF nimports > ImportThreshold THEN 1 ELSE 0)
        s4 == s3 + (IF nlines > LongFile THEN 1 ELSE 0)
        s5 == s4 - (IF nlines < ShortFile THEN 1 ELSE 0)
    IN Clamp(s5)

\* "Determine purpose": the first keyword test that matches the base name,
\* else the classes, else the functions, else "Unknown".
InferPurpose(name, nclasses, nfunctions) ==
    CASE "test" \in name -> "Test file"
      [] name \cap {"config", "settings"} # {} -> "Configuration"
      [] "model" \in name -> "Data models"
      [] name \cap {"util", "helper"} # {} -> "Utility functions"
      [] name \cap {"main", "app", "index"} # {} -> "Application entry point"
      [] name \cap {"api", "route"} # {} -> "API endpoints"
      [] nclasses > 0 -> "Defines " \o ToString(nclasses) \o " class(es)"
      [] nfunctions > 0 -> "Defines " \o ToString(nfunctions) \o " function(s)"
      [] OTHER -> "Unknown"

FileAnalysisHandoff(path, lang, purpose, lists, score) ==
    [path |-> path, language |-> lang, purpose |-> purpose,
     imports |-> lists.imports, exports |-> lists.exports, classes |-> lists.classes,
     functions |-> lists.functions, constants |-> lists.constants,
     complexity_score |-> score]

\* analyze_file_locally(file_path, content, language)
AnalyzeFileLocally(path, text, lang) ==
    LET lists == Extract(text, lang)
    IN FileAnalysisHandoff(
           path,
           IF lang = NoneVal THEN "unknown" ELSE lang,
           InferPurpose(path, Len(lists.classes), Len(lists.functions)),
           lists,
           LocalComplexity(Len(lists.classes), Len(lists.functions),
                           Len(lists.imports), text.lines))

\* What the provider's text holds for parse_llm_analysis: whether the PURPOSE
\* pattern matches, and what the COMPLEXITY pattern (\d+) captures: nothing,
\* the digits of a natural number, or digits int() refuses to convert.
LlmComplexities ==
    {[found |-> "no match", digits |-> 0], [found |-> "int() raises", digits |-> 0]}
    \cup {[found |-> "integer", digits |-> n] : n \in 0..MaxLlmInteger}

LlmOutputs == [purpose : {NoneVal, "purpose by the provider"}, complexity : LlmComplexities]

NoLlmOutput == [purpose |-> NoneVal, complexity |-> [found |-> "no match", digits |-> 0]]

\* parse_llm_analysis(llm_output, path, language, content)
ParseLlmAnalysis(llm_output, path, lang, text) ==
    LET local == AnalyzeFileLocally(path, text, lang)
    IN [local EXCEPT
            !.language = lang,
            !.purpose = IF llm_output.purpose # NoneVal THEN llm_output.purpose
                        ELSE local.purpose,
            !.complexity_score =
                IF llm_output.complexity.found = "integer"
                THEN Clamp(llm_output.complexity.digits)
                ELSE local.complexity_score]

\* The record analyze_files_batch appends for a file that cannot be read.
UnreadablePlaceholder(path, lang) ==
    FileAnalysisHandoff(
        path,
        IF lang = NoneVal THEN "unknown" ELSE lang,
        "Could not read",
        [imports |-> <<>>, classes |-> <<>>, functions |-> <<>>,
         exports |-> <<>>, constants |-> <<>>],
        PlaceholderScore)

NoAnalysis == [path |-> {}, language |-> NoneVal, purpose |-> NoneVal,
               imports |-> <<>>, exports |-> <<>>, classes |-> <<>>,
               functions |-> <<>>, constants |-> <<>>, complexity_score |-> 0]

\* The analyzer variables while another part is exercised.
AnalyzerIdle ==
    /\ analyzer_pc = "idle"
    /\ file_name = {}
    /\ content = [lines |-> 1, imports |-> 0, classes |-> 0, functions |-> 0,
                  exports |-> 0, constants |-> 0]
    /\ language = NoneVal
    /\ llm_text = NoLlmOutput
    /\ analysis = NoAnalysis

\* A file about to be analysed.
AnalyzerInit ==
    /\ analyzer_pc = "input"
    /\ file_name \in FileNames
    /\ content \in Contents
    /\ language \in Languages
    /\ llm_text = NoLlmOutput
    /\ analysis = NoAnalysis

AnalyzerDone(how) ==
    /\ analyzer_pc' = how
    /\ UNCHANGED <<file_name, content, language>>
    /\ UNCHANGED <<coordVars, pipeVars, moduleVars, graphVars, runVars>>

\* The local fallback, or analyze_files_batch on a readable file.
AnalyzeLocally ==
    /\ analyzer_pc = "input"
    /\ UNCHANGED llm_text
    /\ analysis' = AnalyzeFileLocally(file_name, content, language)
    /\ AnalyzerDone("local")

\* run_file_analysis on a task that succeeded with an output; its files all
\* carry a language hint.
ParseLlm(llm_output) ==
    /\ analyzer_pc = "input"
    /\ language # NoneVal
    /\ llm_text' = llm_output
    /\ analysis' = ParseLlmAnalysis(llm_output, file_name, language, content)
    /\ AnalyzerDone("parsed")

\* analyze_files_batch on a file read_file could not read.
AnalyzeUnreadable ==
    /\ analyzer_pc = "input"
    /\ UNCHANGED llm_text
    /\ analysis' = UnreadablePlaceholder(file_name, language)
    /\ AnalyzerDone("placeholder")

----------------------------------------------------------------------------
(***************************************************************************)
(* Module identification: identify_modules.  Paths and names are sequences *)
(* of characters, so that os.path.dirname and str.replace are computed.    *)
(***************************************************************************)
MaxFiles == 3

RootThreshold == 3
PublicApiLimit == 20
InternalLimit == 10

\* Relative paths as discovery records them, in the order it lists them.
SamplePaths ==
    << <<"x">>, <<"y">>, <<"z">>,
       <<"a", "/", "k">>,
       <<"a", "/", "b", "/", "m">>,
       <<"a", "/", "b", "/", "n">>,
       <<"a", "/", "b", "/", "o">>,
       <<"a", ".", "b", "/", "m">>,
       <<"r", "o", "o", "t", "/", "m">> >>

\* The purposes a file record can carry.
SamplePurposes == {"", "Unknown", "Test file", "Data models"}

\* The exports every sample file carries: one public, one private name.
SampleExports == << <<"f">>, <<"_", "g">> >>

Max(S) == CHOOSE x \in S : \A y \in S : y <= x
Min(S) == CHOOSE x \in S : \A y \in S : x <= y

\* seq[:n]
Take(seq, n) == SubSeq(seq, 1, IF Len(seq) < n THEN Len(seq) ELSE n)

\* The concatenation of a sequence of sequences.
RECURSIVE Flatten(_)
Flatten(seqs) == IF seqs = <<>> THEN <<>> ELSE Head(seqs) \o Flatten(Tail(seqs))

\* os.path.dirname (posixpath): everything up to the last "/", with trailing
\* slashes stripped unless it consists of slashes only.
Dirname(path) ==
    LET slashes == {i \in 1..Len(path) : path[i] = "/"}
    IN IF slashes = {} THEN <<>>
       ELSE LET head == SubSeq(path, 1, Max(slashes))
                kept == {i \in 1..Len(head) : head[i] # "/"}
            IN IF kept = {} THEN head ELSE SubSeq(head, 1, Max(kept))

RootDir == <<".">>

\* "dir_path = os.path.dirname(analysis.path); if not dir_path: dir_path = '.'"
DirPath(path) == IF Dirname(path) = <<>> THEN RootDir ELSE Dirname(path)

\* str.replace of one character by another.
Replace(str, old, new) == [i \in 1..Len(str) |-> IF str[i] = old THEN new ELSE str[i]]

\* "Determine module name".
ModuleName(dir_path) ==
    IF dir_path = RootDir THEN <<"r", "o", "o", "t">>
    ELSE Replace(Replace(dir_path, "/", "."), "\\", ".")

\* The keys of dir_files, in the order they were inserted.
DirKeys(records) ==
    LET n == Len(records)
        first == SelectSeq([i \in 1..n |-> i],
                           LAMBDA i : \A j \in 1..(i - 1) :
                               DirPath(records[j].path) # DirPath(records[i].path))
    IN [k \in 1..Len(first) |-> DirPath(records[first[k]].path)]

IsPrefix(a, b) == Len(a) <= Len(b) /\ SubSeq(b, 1, Len(a)) = a

DirFilesByPrefix(records, dir_path) ==
    SelectSeq(records,
              LAMBDA f : dir_path = RootDir \/ IsPrefix(dir_path, DirPath(f.path)))

\* dir_files[dir_path]: the analyses of that directory, in input order.
DirFiles(records, dir_path) ==
    SelectSeq(records, LAMBDA f : DirPath(f.path) = dir_path)

SkippedWhenSmall(dir_path, files) == Len(files) < RootThreshold

\* "if dir_path == '.' and len(files) < 3: continue"
Skipped(dir_path, files) == dir_path = RootDir /\ Len(files) < RootThreshold

Count(seq, v) == Cardinality({i \in 1..Len(seq) : seq[i] = v})

MostCommonLast(seq) ==
    LET top == Max({Count(seq, seq[i]) : i \in 1..Len(seq)})
    IN seq[Max({i \in 1..Len(seq) : Count(seq, seq[i]) = top})]

\* Counter(seq).most_common(1)[0][0]: the value counted most often, the one
\* counted first among equals.
MostCommon(seq) ==
    LET top == Max({Count(seq, seq[i]) : i \in 1..Len(seq)})
    IN seq[Min({i \in 1..Len(seq) : Count(seq, seq[i]) = top})]

\* "Determine module purpose".
ModulePurpose(files) ==
    LET given == SelectSeq([i \in 1..Len(files) |-> files[i].purpose],
                           LAMBDA q : q # "" /\ q # "Unknown")
    IN IF given # <<>> THEN MostCommon(given)
       ELSE "Module containing " \o ToString(Len(files)) \o " files"

\* "path:export" for the exports of the files that pass the test, in order.
ExportsOf(files, private) ==
    Flatten([i \in 1..Len(files) |->
                [k \in 1..Len(SelectSeq(files[i].exports, LAMBDA e : (Head(e) = "_") = private)) |->
                    <<files[i].path,
                      SelectSeq(files[i].exports, LAMBDA e : (Head(e) = "_") = private)[k]>>]])

ModuleInfo(dir_path, files) ==
    [name |-> ModuleName(dir_path),
     path |-> dir_path,
     files |-> [i \in 1..Len(files) |-> files[i].path],
     purpose |-> ModulePurpose(files),
     public_api |-> Take(ExportsOf(files, FALSE), PublicApiLimit),
     internal_components |-> Take(ExportsOf(files, TRUE), InternalLimit)]

\* identify_modules(file_analyses, repository_path)
IdentifyModules(records) ==
    LET keys == DirKeys(records)
        kept == SelectSeq(keys, LAMBDA d : ~Skipped(d, DirFiles(records, d)))
    IN [k \in 1..Len(kept) |-> ModuleInfo(kept[k], DirFiles(records, kept[k]))]

\* Selections of n sample paths, in listing order.
PathSelections(n) ==
    {f \in [1..n -> 1..Len(SamplePaths)] : \A i \in 1..(n - 1) : f[i] < f[i + 1]}

\* A list of file analyses: the selected sample paths, each with a purpose.
AnalysisList(n, idx, pur) ==
    [i \in 1..n |-> [path |-> SamplePaths[idx[i]], purpose |-> pur[i], exports |-> SampleExports]]

\* The module variables while another part is exercised.
ModulesIdle ==
    /\ modules_pc = "idle"
    /\ analyses = <<>>
    /\ modules = <<>>

ModulesInit ==
    /\ modules_pc = "input"
    /\ \E n \in 0..MaxFiles :
          \E idx \in PathSelections(n), pur \in [1..n -> SamplePurposes] :
              analyses = AnalysisList(n, idx, pur)
    /\ modules = <<>>

\* run_module_analysis: "modules = identify_modules(file_analyses, ...)".
Identify ==
    /\ modules_pc = "input"
    /\ modules' = IdentifyModules(analyses)
    /\ modules_pc' = "done"
    /\ UNCHANGED analyses
    /\ UNCHANGED <<coordVars, pipeVars, analyzerVars, graphVars, runVars>>

(***************************************************************************)
(* Dependency graph: build_dependency_graph.  Paths and module references  *)
(* are sequences of characters, so that os.path.splitext, str.replace,     *)
(* str.endswith and the "in" test are computed.                            *)
(***************************************************************************)
MaxGraphFiles == 3

\* Relative paths of analysed files: a.p, d/a.p, d/b.p, d/a/c.p and the dotfile .a
GraphPaths ==
    << <<"a", ".", "p">>,
       <<"d", "/", "a", ".", "p">>,
       <<"d", "/", "b", ".", "p">>,
       <<"d", "/", "a", "/", "c", ".", "p">>,
       <<".", "a">> >>

\* ImportInfo(module, is_relative, is_external)
ImportInfo(module, is_relative, is_external) ==
    [module |-> module, is_relative |-> is_relative, is_external |-> is_external]

\* ClassInfo(name, base_classes)
ClassInfo(name, base_classes) == [name |-> name, base_classes |-> base_classes]

\* The imports and classes a file record can carry.  "import d.a", "import q.r"
\* (dotted, so not external), "from .a import", "from . import" (relative),
\* "from a import" (external), and an import a provider marked both relative
\* and external.
GraphContents ==
    << [imports |-> <<>>, classes |-> <<>>],
       [imports |-> <<ImportInfo(<<"d", ".", "a">>, FALSE, FALSE)>>,
        classes |-> <<ClassInfo("A", <<>>)>>],
       [imports |-> <<ImportInfo(<<".", "a">>, TRUE, FALSE), ImportInfo(<<"a">>, FALSE, TRUE)>>,
        classes |-> <<ClassInfo("B", <<"A">>)>>],
       [imports |-> <<ImportInfo(<<".">>, TRUE, FALSE)>>,
        classes |-> <<ClassInfo("A", <<>>), ClassInfo("A", <<>>)>>],
       [imports |-> <<ImportInfo(<<"q", ".", "r">>, FALSE, FALSE), ImportInfo(<<"a">>, TRUE, TRUE)>>,
        classes |-> <<ClassInfo("C", <<"A", "B">>)>>],
       [imports |-> <<>>,
        classes |-> <<ClassInfo("B", <<>>), ClassInfo("C", <<"B">>)>>] >>

\* os.path.splitext(path)[0]: the path without the extension of its last
\* component; leading dots of that component do not start an extension.
Splitext(path) ==
    LET sepIndex == Max({0} \cup {i \in 1..Len(path) : path[i] = "/"})
        dotIndex == Max({0} \cup {i \in 1..Len(path) : path[i] = "."})
        named == {k \in (sepIndex + 1)..(dotIndex - 1) : path[k] # "."}
    IN IF dotIndex > sepIndex /\ named # {} THEN SubSeq(path, 1, dotIndex - 1) ELSE path

\* str.endswith
EndsWith(str, suffix) ==
    Len(suffix) <= Len(str) /\ SubSeq(str, Len(str) - Len(suffix) + 1, Len(str)) = suffix

\* "sub in str"
Contains(str, sub) ==
    \E k \in 0..(Len(str) - Len(sub)) : SubSeq(str, k + 1, k + Len(sub)) = sub

DependencyEdge(source, target, relationship_type, strength) ==
    [source |-> source, target |-> target,
     relationship_type |-> relationship_type, strength |-> strength]

\* file_exports.keys(): the paths, in the order they were first inserted.
FileExportKeys(records) ==
    LET n == Len(records)
        first == SelectSeq([i \in 1..n |-> i],
                           LAMBDA i : \A j \in 1..(i - 1) : records[j].path # records[i].path)
    IN [k \in 1..Len(first) |-> records[first[k]].path]

AnyImport(imp) == TRUE

\* "if imp.is_relative or not imp.is_external"
IsLocalImport(imp) == imp.is_relative \/ ~imp.is_external

\* "target_module = imp.module.replace('.', '/')"
TargetModule(imp) == Replace(imp.module, ".", "/")

\* "if other_base.endswith(target_module) or target_module in other_base"
CouldBeTarget(other_path, target_module) ==
    \/ EndsWith(Splitext(other_path), target_module)
    \/ Contains(Splitext(other_path), target_module)

AllMatches(paths, target_module) ==
    SelectSeq(paths, LAMBDA other_path : CouldBeTarget(other_path, target_module))

\* "for other_path in file_exports.keys(): if ...: edges.append(...); break":
\* the targets one import gets an edge to, none or the first that matches.
RECURSIVE FirstMatch(_, _)
FirstMatch(paths, target_module) ==
    IF paths = <<>> THEN <<>>
    ELSE IF CouldBeTarget(Head(paths), target_module) THEN <<Head(paths)>>
    ELSE FirstMatch(Tail(paths), target_module)

\* "for imp in analysis.imports": the edges of one file's imports.
ImportEdges(records, f) ==
    Flatten([k \in 1..Len(f.imports) |->
                IF IsLocalImport(f.imports[k])
                THEN LET found == FirstMatch(FileExportKeys(records), TargetModule(f.imports[k]))
                     IN [t \in 1..Len(found) |->
                            DependencyEdge(f.path, found[t], "imports", "normal")]
                ELSE <<>>])

\* "for other_cls in other.classes: if other_cls.name == base"
ClassMatches(other, base) == SelectSeq(other.classes, LAMBDA other_cls : other_cls.name = base)

BaseEdgesFirstOnly(records, f, base) ==
    Take(Flatten([o \in 1..Len(records) |->
                    IF records[o].path # f.path
                    THEN [m \in 1..Len(ClassMatches(records[o], base)) |->
                             DependencyEdge(f.path, records[o].path, "extends", "strong")]
                    ELSE <<>>]), 1)

\* "for other in file_analyses: if other.path != analysis.path": the edges of
\* one base-class name of one class of f.
BaseEdges(records, f, base) ==
    Flatten([o \in 1..Len(records) |->
                IF records[o].path # f.path
                THEN [m \in 1..Len(ClassMatches(records[o], base)) |->
                         DependencyEdge(f.path, records[o].path, "extends", "strong")]
                ELSE <<>>])

\* "for cls in analysis.classes: for base in cls.base_classes"
ExtendsEdges(records, f) ==
    Flatten([c \in 1..Len(f.classes) |->
                Flatten([b \in 1..Len(f.classes[c].base_classes) |->
                            BaseEdges(records, f, f.classes[c].base_classes[b])])])

\* build_dependency_graph(file_analyses)
BuildDependencyGraph(records) ==
    Flatten([i \in 1..Len(records) |->
                ImportEdges(records, records[i]) \o ExtendsEdges(records, records[i])])

\* Lists of n file analyses with distinct sample paths, in any order.
GraphPathChoices(n) ==
    {f \in [1..n -> 1..Len(GraphPaths)] : \A i, j \in 1..n : i # j => f[i] # f[j]}

GraphAnalysisList(n, idx, cont) ==
    [i \in 1..n |-> [path |-> GraphPaths[idx[i]],
                     imports |-> GraphContents[cont[i]].imports,
                     classes |-> GraphContents[cont[i]].classes]]

\* The graph variables while another part is exercised.
GraphIdle ==
    /\ graph_pc = "idle"
    /\ graph_analyses = <<>>
    /\ edges = <<>>

GraphInit ==
    /\ graph_pc = "input"
    /\ \E n \in 0..MaxGraphFiles :
          \E idx \in GraphPathChoices(n), cont \in [1..n -> 1..Len(GraphContents)] :
              graph_analyses = GraphAnalysisList(n, idx, cont)
    /\ edges = <<>>

\* run_module_analysis: "dependency_graph = build_dependency_graph(file_analyses)".
BuildGraph ==
    /\ graph_pc = "input"
    /\ edges' = BuildDependencyGraph(graph_analyses)
    /\ graph_pc' = "done"
    /\ UNCHANGED graph_analyses
    /\ UNCHANGED <<coordVars, pipeVars, analyzerVars, moduleVars, runVars>>

(***************************************************************************)
(* run_file_analysis: one work item per readable analyzable file, run in   *)
(* consecutive batches on one coordinator, each outcome turned into a file *)
(* record.  A record is described by the call that built it.               *)
(***************************************************************************)
MaxAnalyzable == 16

BatchSize == 15

\* What read_file returns: an "Error: ..." message, or the file's text, which
\* may be empty.
ReadError == [error |-> TRUE, text |-> "Error:"]
EmptyContent == [error |-> FALSE, text |-> ""]
TextOf(path) == [error |-> FALSE, text |-> "text of " \o path]

FilePath(k) == "f" \o ToString(k)
FileLanguage(k) == IF k % 2 = 1 THEN "python" ELSE "typescript"

\* The analyzable files of a repository: n of them, the u-th unreadable and
\* the e-th empty (0: none).
AnalyzableFiles(n, u, e) ==
    [k \in 1..n |->
        [path |-> FilePath(k),
         language |-> FileLanguage(k),
         on_disk |-> IF k = u THEN ReadError
                     ELSE IF k = e THEN EmptyContent ELSE TextOf(FilePath(k))]]

\* "if content.startswith('Error:'): continue"
Readable(file_cls) == ~file_cls.on_disk.error

\* "if content": a string is true unless empty.
NonEmpty(text) == text # EmptyContent

\* SubagentTask(name=f"analyze_{file_cls.path.replace('/', '_')}", prompt=...):
\* the sample paths hold no "/", the prompt names path, language and content.
SubagentTask(file_cls) ==
    [name |-> "analyze_" \o file_cls.path,
     prompt |-> [path |-> file_cls.path, language |-> file_cls.language,
                 content |-> file_cls.on_disk]]

\* file_contents.get(path, "")
CachedContent(cache, path) == IF path \in DOMAIN cache THEN cache[path] ELSE EmptyContent

\* The record parse_llm_analysis(str(result.output), path, language, content) builds.
ParsedRecord(result, path, lang, text) ==
    [built_by |-> "parse_llm_analysis", task_name |-> result.task_name,
     llm_output |-> result.output, path |-> path, language |-> lang, content |-> text,
     key_insight |-> NoneVal]

\* The record analyze_file_locally(path, content, language) builds, with the
\* insight "LLM analysis failed: {result.error}" appended.
FallbackRecord(result, path, lang, text) ==
    [built_by |-> "analyze_file_locally", task_name |-> result.task_name,
     llm_output |-> NoneVal, path |-> path, language |-> lang, content |-> text,
     key_insight |-> "LLM analysis failed: " \o result.error]

\* The file a result is matched with: "file_cls = analyzable_files[file_idx]"
\* with file_idx = i + j (0-based i, 1-based position j here).
FileOfResult(files, i, j) == files[i + j]

\* The body of "for j, result in enumerate(batch_results)": the records one
\* result adds to the list.
RecordsOfResult(files, cache, i, j, result) ==
    IF i + j > Len(files) THEN <<>>
    ELSE LET file_cls == FileOfResult(files, i, j)
             text == CachedContent(cache, file_cls.path)
         IN IF result.success /\ Truthy(result.output)
            THEN <<ParsedRecord(result, file_cls.path, file_cls.language, text)>>
            ELSE IF NonEmpty(text)
                 THEN <<FallbackRecord(result, file_cls.path, file_cls.language, text)>>
                 ELSE <<>>

\* The provider outcomes of a batch of n items: all succeed with an output,
\* except at most the item at position failing.
BatchOutcomes(n, failing, outcome) == [j \in 1..n |-> IF j = failing THEN outcome ELSE "ok"]

\* The run_file_analysis variables while another part is exercised.
FileRunIdle ==
    /\ run_pc = "idle"
    /\ analyzable_files = <<>>
    /\ file_contents = <<>>
    /\ analysis_tasks = <<>>
    /\ batch_i = 0
    /\ analysis_results = <<>>

\* run_file_analysis has filtered discovery.files down to the analyzable ones.
FileRunInit ==
    /\ run_pc = "input"
    /\ \E n \in 0..MaxAnalyzable : \E u, e \in 0..n :
          analyzable_files = AnalyzableFiles(n, u, e)
    /\ file_contents = <<>>
    /\ analysis_tasks = <<>>
    /\ batch_i = 0
    /\ analysis_results = <<>>

\* "for file_cls in analyzable_files": read each file, skip the unreadable
\* ones, cache the content and append the file's task.
CreateTasks ==
    /\ run_pc = "input"
    /\ LET readable == SelectSeq(analyzable_files, Readable)
       IN /\ file_contents' = [path \in {readable[k].path : k \in 1..Len(readable)} |->
                                   (CHOOSE f \in {readable[k] : k \in 1..Len(readable)} :
                                        f.path = path).on_disk]
          /\ analysis_tasks' = [k \in 1..Len(readable) |-> SubagentTask(readable[k])]
    /\ run_pc' = "batches"
    /\ UNCHANGED <<analyzable_files, batch_i, analysis_results>>
    /\ UNCHANGED <<coordVars, pipeVars, analyzerVars, moduleVars, graphVars>>

\* One turn of "for i in range(0, len(tasks), batch_size)": the batch is run by
\* coordinator.run_parallel, which returns one result per task in task order,
\* and every result is turned into records.
RunBatch(failing, outcome) ==
    /\ run_pc = "batches"
    /\ batch_i < Len(analysis_tasks)
    /\ LET batch == SubSeq(analysis_tasks, batch_i + 1,
                           Min({batch_i + BatchSize, Len(analysis_tasks)}))
           outs == BatchOutcomes(Len(batch), failing, outcome)
           batch_results == [j \in 1..Len(batch) |-> RunTaskResult(batch[j].name, outs[j])]
       IN /\ failing <= Len(batch)
          /\ analysis_results' =
                 analysis_results \o
                 Flatten([j \in 1..Len(batch) |->
                             RecordsOfResult(analyzable_files, file_contents, batch_i, j,
                                             batch_results[j])])
    /\ batch_i' = batch_i + BatchSize
    /\ UNCHANGED <<run_pc, analyzable_files, file_contents, analysis_tasks>>
    /\ UNCHANGED <<coordVars, pipeVars, analyzerVars, moduleVars, graphVars>>

\* "Save results" and return them; the write may raise.
SaveResults(ok) ==
    /\ run_pc = "batches"
    /\ batch_i >= Len(analysis_tasks)
    /\ run_pc' = IF ok THEN "done" ELSE "raised"
    /\ UNCHANGED <<analyzable_files, file_contents, analysis_tasks, batch_i, analysis_results>>
    /\ UNCHANGED <<coordVars, pipeVars, analyzerVars, moduleVars, graphVars>>

----------------------------------------------------------------------------
(* The specifications *)

Init == CoordInit /\ PipeIdle /\ AnalyzerIdle /\ ModulesIdle /\ GraphIdle /\ FileRunIdle

Next ==
    \/ \E i \in Items : Acquire(i)
    \/ \E i \in Items, o \in ProviderOutcomes, r \in BOOLEAN : Finish(i, o, r)
    \/ Return
    \/ \E b \in Batches, cb \in Callbacks : NextBatch(b, cb)

Spec == Init /\ [][Next]_vars

\* One run_parallel call.  The event loop resumes every coroutine that can
\* run: one waiting for a slot while a slot is free, and gather's waiter once
\* all items are done; every provider invocation returns or raises in the end.
RunParallelNext ==
    \/ \E i \in Items : Acquire(i)
    \/ \E i \in Items, o \in ProviderOutcomes, r \in BOOLEAN : Finish(i, o, r)
    \/ Return

EventLoopFairness ==
    /\ \A i \in 1..MaxTasks : WF_vars(i \in Items /\ Acquire(i))
    /\ \A i \in 1..MaxTasks :
          WF_vars(i \in Items /\ \E o \in ProviderOutcomes, r \in BOOLEAN : Finish(i, o, r))
    /\ WF_vars(Return)

RunParallelSpec == Init /\ [][RunParallelNext]_vars /\ EventLoopFairness

PipelineInit == PipeInit /\ CoordIdle /\ AnalyzerIdle /\ ModulesIdle /\ GraphIdle /\ FileRunIdle

PipelineNext ==
    \/ DiscoveryPathMissing
    \/ \E nd \in 1..MaxDirs : \E outs \in [1..nd -> ProviderOutcomes] : DiscoveryExplore(nd, outs)
    \/ \E o \in ProviderOutcomes : DiscoverySynthesize(o)
    \/ \E ok \in BOOLEAN : DiscoverySaveHandoff(ok)
    \/ \E ok \in BOOLEAN : DiscoverySaveExploration(ok)
    \/ FileAnalysisAnalyze
    \/ \E ok \in BOOLEAN : FileAnalysisSave(ok)
    \/ \E nm \in 0..MaxModules : ModuleAnalysisAnalyze(nm)
    \/ \E ok \in BOOLEAN : ModuleAnalysisSaveHandoff(ok)
    \/ \E ok \in BOOLEAN : ModuleAnalysisSaveDetailed(ok)
    \/ \E o1, o2, o3, o4 \in ProviderOutcomes, mouts \in [1..module_count -> ProviderOutcomes] :
          SynthesisGenerate(o1, o2, mouts, o3, o4)
    \/ \E at \in {"ok", ReadmeFile, ApiReferenceFile} : SynthesisWrite(at)
    \/ \E o \in ProviderOutcomes, k \in 0..ParsedLimit, raises \in BOOLEAN :
          ExamplesGenerate(o, k, raises)
    \/ \E ok \in BOOLEAN : ExamplesWrite(ok)
    \/ \E o \in ProviderOutcomes, nq \in 0..MaxFaqs, ok \in BOOLEAN : FaqGenerate(o, nq, ok)

PipelineSpec == PipelineInit /\ [][PipelineNext]_vars

AnalyzerSpecInit == AnalyzerInit /\ CoordIdle /\ PipeIdle /\ ModulesIdle /\ GraphIdle /\ FileRunIdle

AnalyzerNext ==
    \/ AnalyzeLocally
    \/ \E llm_output \in LlmOutputs : ParseLlm(llm_output)
    \/ AnalyzeUnreadable

AnalyzerSpec == AnalyzerSpecInit /\ [][AnalyzerNext]_vars

ModulesSpecInit == ModulesInit /\ CoordIdle /\ PipeIdle /\ AnalyzerIdle /\ GraphIdle /\ FileRunIdle

ModulesNext == Identify

ModulesSpec == ModulesSpecInit /\ [][ModulesNext]_vars

GraphSpecInit == GraphInit /\ CoordIdle /\ PipeIdle /\ AnalyzerIdle /\ ModulesIdle /\ FileRunIdle

GraphNext == BuildGraph

GraphSpec == GraphSpecInit /\ [][GraphNext]_vars

FileRunSpecInit ==
    FileRunInit /\ CoordIdle /\ PipeIdle /\ AnalyzerIdle /\ ModulesIdle /\ GraphIdle

FileRunNext ==
    \/ CreateTasks
    \/ \E failing \in 0..BatchSize, outcome \in {"none", "err"} : RunBatch(failing, outcome)
    \/ \E ok \in BOOLEAN : SaveResults(ok)

FileRunSpec == FileRunSpecInit /\ [][FileRunNext]_vars

----------------------------------------------------------------------------
(* Claims about the coordinator, checked under Spec *)

\* The success flag and output the i-th item should be reported with when
\* nothing but its own provider invocation decides them.
OwnSuccess(i) == outcomeOf[i] # "err"
OwnOutput(i) == FinalOutput(tasks[i], outcomeOf[i])

\* C1: when run_parallel has returned, its list has exactly one outcome per
\* input item and the i-th outcome belongs to the i-th item: it carries that
\* item's name, and a success carries that item's own output.  This holds for
\* every completion order and whichever items failed.
C1_OrderedOutcomes ==
    returned =>
        /\ Len(final_results) = Len(tasks)
        /\ \A i \in Items :
              /\ final_results[i].task_name = tasks[i]
              /\ final_results[i].success =>
                    (OwnSuccess(i) /\ final_results[i].output = OwnOutput(i))

\* A batch of three has returned, the last item having completed first and the
\* first item having failed.
C1_Witness ==
    /\ returned
    /\ Len(tasks) = 3
    /\ doneOrder[1] = 3
    /\ outcomeOf[1] = "err"
    /\ outcomeOf[3] = "ok"

\* C2: the number of items whose provider invocation has started and not yet
\* finished never exceeds max_concurrent.
C2_CapRespected == Cardinality(InFlight) <= max_concurrent

\* The cap is reached while another item still waits for a slot.
C2_Witness ==
    /\ Cardinality(InFlight) = max_concurrent
    /\ \E i \in Items : st[i] = "waiting"
    /\ Len(tasks) = 3

Populated(v) == v # NoneVal

ExactlyOnePopulated(r) ==
    /\ r.success => (Populated(r.output) /\ ~Populated(r.error))
    /\ ~r.success => (Populated(r.error) /\ ~Populated(r.output))

\* C4: every outcome run_task hands back and every outcome run_parallel
\* returns has exactly one of output and error populated: output on success,
\* error on failure.
C4_ExactlyOnePopulated ==
    /\ \A i \in Items :
          (st[i] = "done" /\ ~gathered[i].raised) => ExactlyOnePopulated(gathered[i].result)
    /\ returned => \A i \in Items : ExactlyOnePopulated(final_results[i])

\* C5: with a progress callback, the calls made so far are one per completed
\* item, in completion order, with completed-counts 1, 2, ... and total N; when
\* run_parallel has returned there have been exactly N calls.  Without a
\* callback there is none.
C5_ProgressCalls ==
    /\ progress_callback = "given" =>
          /\ Len(cbCalls) = Len(doneOrder)
          /\ \A k \in 1..Len(cbCalls) : cbCalls[k] = <<k, Len(tasks)>>
          /\ returned => Len(cbCalls) = Len(tasks)
    /\ progress_callback = "none" => cbCalls = <<>>

\* A batch of three has returned with a callback, the items having completed
\* in the order 3, 1, 2, one of them as a failure.
C5_Witness ==
    /\ returned
    /\ progress_callback = "given"
    /\ doneOrder = <<3, 1, 2>>
    /\ outcomeOf[1] = "err"
    /\ cbCalls = <<<<1, 3>>, <<2, 3>>, <<3, 3>>>>

----------------------------------------------------------------------------
(* Claims about the pipeline, checked under PipelineSpec *)

Finished(p) == status[p] \in {"ok", "failed"}
ActivePhases == {p \in PhaseNames : status[p] = "active"}
LaterPhases(p) == {q \in PhaseNames : PhaseIndex(q) > PhaseIndex(p)}

\* C6: the phases started so far are an initial part of Discovery,
\* FileAnalysis, ModuleAnalysis, Synthesis, Examples, FAQ (fixed order, none
\* repeated, none skipped); a phase is started only when the one before it has
\* finished; at most one phase is active; and Done is reached only with the
\* FAQ phase finished.
C6_PhaseOrder ==
    /\ Len(started) <= Len(PhaseOrder)
    /\ \A k \in 1..Len(started) : started[k] = PhaseOrder[k]
    /\ \A k \in 2..Len(started) : Finished(started[k - 1])
    /\ \A p \in PhaseNames : status[p] # "notrun" <=> \E k \in 1..Len(started) : started[k] = p
    /\ Cardinality(ActivePhases) <= 1
    /\ pc = "Done" => (started = PhaseOrder /\ Finished("FAQ") /\ ActivePhases = {})

\* The run is Done, all six phases having run, Examples as a failure.
C6_Witness ==
    /\ pc = "Done"
    /\ started = PhaseOrder
    /\ status["Examples"] = "failed"
    /\ status["FAQ"] = "ok"

\* What run_discovery .. write_documentation_files can raise.
CausesOf(p) ==
    CASE p = "Discovery" -> {"ValueError: Repository path does not exist",
                             OSErrorOn(DiscoveryHandoffFile), OSErrorOn(ExplorationFile)}
      [] p = "FileAnalysis" -> {OSErrorOn(FileAnalysisFile)}
      [] p = "ModuleAnalysis" -> {OSErrorOn(ModuleHandoffFile), OSErrorOn(ModuleDetailedFile)}
      [] p = "Synthesis" -> {OSErrorOn(ReadmeFile), OSErrorOn(ApiReferenceFile)}
      [] OTHER -> {}

C7_FailedState ==
    /\ \A p \in {"Discovery", "FileAnalysis", "ModuleAnalysis", "Synthesis"} :
          status[p] = "failed" =>
              /\ pc = "Failed"
              /\ failedPhase = p
              /\ raised \in CausesOf(p)
              /\ \A q \in LaterPhases(p) : status[q] = "notrun" /\ ArtifactsOf(q) \cap disk = {}
    /\ pc = "Failed" => status[failedPhase] = "failed"

\* C7: a failure of Discovery, FileAnalysis, ModuleAnalysis or Synthesis puts
\* the run in Failed with that phase's exception propagated to the caller, no
\* later phase started and no later phase's file written; and once Failed the
\* run stays Failed: no phase starts, no file is written, Done is not reached.
C7_FatalPhaseAborts ==
    /\ []C7_FailedState
    /\ [][pc = "Failed" => (pc' = "Failed" /\ status' = status /\ disk' = disk)]_vars

\* ModuleAnalysis failed on its second write: Failed, with its first file and
\* the earlier phases' files on disk and nothing of a later phase.
C7_Witness ==
    /\ pc = "Failed"
    /\ failedPhase = "ModuleAnalysis"
    /\ raised = OSErrorOn(ModuleDetailedFile)
    /\ disk = {DiscoveryHandoffFile, ExplorationFile, FileAnalysisFile, ModuleHandoffFile}

\* C8: a failure of Examples or of FAQ does not put the run in Failed; after
\* an Examples failure the FAQ phase is started; the run goes on to Done; and
\* at Done the failed phase has contributed nothing: no examples in the
\* documentation and no EXAMPLES.md, or no FAQs and no FAQ.md.
C8_NonFatalPhases ==
    /\ status["Examples"] = "failed" =>
          /\ pc \in {"Q_generate", "Done"}
          /\ status["FAQ"] # "notrun"
    /\ status["FAQ"] = "failed" => pc = "Done"
    /\ (pc = "Done" /\ status["Examples"] = "failed") =>
          (documentation.examples = <<>> /\ ExamplesFile \notin disk)
    /\ (pc = "Done" /\ status["FAQ"] = "failed") => (faqs = 0 /\ FaqFile \notin disk)

\* "Synthesis failed: <error>", the summary of a Discovery whose synthesis task raised.
OutageSummary == "Synthesis failed: " \o ErrorOf("synthesis")

DiscoveryInvocationsOver == pc \notin {"D_explore", "D_synth"}

\* C9 as claimed: with every provider invocation of Discovery failed, the run
\* is Failed at Discovery and no FileAnalysis or ModuleAnalysis file exists.
C9_OutageFailsDiscovery ==
    (discoveryOutage /\ DiscoveryInvocationsOver /\ status["Discovery"] # "active") =>
        /\ pc = "Failed"
        /\ failedPhase = "Discovery"
        /\ disk \cap (ArtifactsOf("FileAnalysis") \cup ArtifactsOf("ModuleAnalysis")) = {}

\* C9 as amended: a provider outage does not fail Discovery.  With every
\* invocation failed, a Discovery that wrote its files completes with the
\* handoff whose summary is "Synthesis failed: <error>" and the run goes on to
\* FileAnalysis.  The run is Failed at Discovery only because run_discovery
\* raised (path missing, a handoff file not writable), and then no
\* FileAnalysis or ModuleAnalysis file exists.
C9_OutageDegradesDiscovery ==
    /\ (discoveryOutage /\ status["Discovery"] = "ok") =>
          /\ discovery.set
          /\ discovery.summary = OutageSummary
          /\ status["FileAnalysis"] # "notrun"
    /\ (discoveryOutage /\ pc = "D_save_handoff") => handoff.summary = OutageSummary
    /\ status["Discovery"] = "failed" =>
          /\ pc = "Failed"
          /\ raised \in CausesOf("Discovery")
          /\ disk \cap (ArtifactsOf("FileAnalysis") \cup ArtifactsOf("ModuleAnalysis")) = {}

\* After a complete outage in Discovery the run has gone on and written the
\* FileAnalysis file.
C9_Witness ==
    /\ discoveryOutage
    /\ status["Discovery"] = "ok"
    /\ discovery.summary = OutageSummary
    /\ FileAnalysisFile \in disk

SectionsPopulated(doc) ==
    /\ doc.set
    /\ Populated(doc.overview)
    /\ Populated(doc.architecture)
    /\ \A k \in 1..Len(doc.modules) : Populated(doc.modules[k])
    /\ Populated(doc.api_reference)
    /\ Populated(doc.getting_started)

\* C10: when the Examples phase has failed, the run still ends Done, and at
\* Done the documentation's examples list is empty while overview,
\* architecture, modules, API reference and getting-started are populated.
C10_ExamplesEmptyOnFailure ==
    status["Examples"] = "failed" =>
        /\ pc \in {"Q_generate", "Done"}
        /\ pc = "Done" => (documentation.examples = <<>> /\ SectionsPopulated(documentation))

----------------------------------------------------------------------------
(* Claims about the handoff files and the phase documents, under PipelineSpec *)

\* The phase that writes a handoff file.
WriterOf(file) ==
    CHOOSE p \in PhaseNames : file \in ArtifactsOf(p)

\* C11: whenever a phase has loaded a handoff file (exploration results in
\* ModuleAnalysis, detailed module analysis in Synthesis and FAQ), the content
\* it read was written in this run by an earlier phase that had completed;
\* never the leftover of a previous run, never a missing file.
C11_LoadsOwnRun ==
    \A p \in LoadingPhases :
        loaded[p] # "not loaded" =>
            /\ loaded[p] = "this run"
            /\ PhaseIndex(WriterOf(LoadedFile(p))) < PhaseIndex(p)
            /\ status[WriterOf(LoadedFile(p))] = "ok"

\* A run over the leftovers of a previous run in which all three loads happened.
C11_Witness ==
    /\ leftover
    /\ pc = "Done"
    /\ \A p \in LoadingPhases : loaded[p] = "this run"

\* The phases that hand a document to later phases through files.
HandoffPhases == {"Discovery", "FileAnalysis", "ModuleAnalysis"}

\* The steps of a phase that come after its work items: the document is
\* built and being saved.
SavePcs(p) ==
    CASE p = "Discovery" -> {"D_save_handoff", "D_save_exploration"}
      [] p = "FileAnalysis" -> {"F_save"}
      [] p = "ModuleAnalysis" -> {"M_save_handoff", "M_save_detailed"}
      [] OTHER -> {}

\* Phase p has finished all its work items and built its document: it has
\* returned, or is saving, or was ended by a failing save.
WorkFinished(p) ==
    \/ status[p] = "ok"
    \/ /\ status[p] = "active"
       /\ pc \in SavePcs(p)
       /\ p = "Discovery" => handoff.set
    \/ /\ status[p] = "failed"
       /\ raised \in {OSErrorOn(f) : f \in ArtifactsOf(p)}

\* C12: starting from an empty output location, at every point of a run a
\* handoff file of phase P is on disk only if P has finished all its work
\* items and built its document in this run.
C12_ArtifactsOnlyAfterWork ==
    ~leftover =>
        \A p \in HandoffPhases : \A f \in ArtifactsOf(p) :
            f \in disk => WorkFinished(p)

\* A run from an empty location that ended while ModuleAnalysis was saving:
\* its first file is there, the second could not be written.
C12_Witness ==
    /\ ~leftover
    /\ pc = "Failed"
    /\ failedPhase = "ModuleAnalysis"
    /\ ModuleHandoffFile \in disk
    /\ ModuleDetailedFile \notin disk

\* A step leaves the documents of the first three phases as they were handed over.
EarlierDocumentsKept ==
    /\ status["Discovery"] = "ok" => discovery' = discovery
    /\ status["FileAnalysis"] = "ok" => file_analyses' = file_analyses
    /\ status["ModuleAnalysis"] = "ok" => module_count' = module_count

\* C13 as stated: a phase document is never modified after the phase that
\* produced it has completed; no later step changes any field of the
\* discovery document, the file analyses, the module analysis or the final
\* document returned by Synthesis.
C13_DocumentsImmutable ==
    [][/\ EarlierDocumentsKept
       /\ documentation.set => documentation' = documentation]_vars

\* C13 amended: the documents of Discovery, FileAnalysis and ModuleAnalysis
\* are never modified once handed over; of the final document only the
\* examples field is ever changed, by the Examples phase assigning the list
\* generate_examples returned, and every other field stays as Synthesis
\* returned it.
C13_OnlyExamplesFilled ==
    [][/\ EarlierDocumentsKept
       /\ documentation.set =>
             /\ [documentation' EXCEPT !.examples = <<>>] =
                    [documentation EXCEPT !.examples = <<>>]
             /\ documentation'.examples # documentation.examples =>
                    /\ pc = "E_write"
                    /\ documentation'.examples = examples]_vars

\* The Examples phase has filled the examples field of the final document.
C13_Witness ==
    /\ status["Examples"] = "ok"
    /\ documentation.set
    /\ documentation.examples # <<>>

----------------------------------------------------------------------------
(* Claims about the file records, checked under AnalyzerSpec *)

AnalysisBuilt == analyzer_pc \in {"local", "parsed", "placeholder"}

\* C14: every file record the file-analysis code builds has a complexity score
\* from 1 to 10, whether it comes from analyze_file_locally, from
\* parse_llm_analysis with any integer found in the provider's text, or from
\* the placeholder for an unreadable file; and none of the three fails.
C14_ScoreInRange ==
    /\ AnalysisBuilt => analysis.complexity_score \in 1..10
    /\ analyzer_pc = "input" =>
          /\ ENABLED AnalyzeLocally
          /\ ENABLED AnalyzeUnreadable
          /\ language # NoneVal => \A out \in LlmOutputs : ENABLED ParseLlm(out)

\* The provider wrote an integer above 10 and the record carries 10.
C14_Witness ==
    /\ analyzer_pc = "parsed"
    /\ llm_text.complexity.found = "integer"
    /\ llm_text.complexity.digits > 10
    /\ analysis.complexity_score = 10

\* 1 when the condition holds, else 0.
Bit(b) == IF b THEN 1 ELSE 0

\* C15: the complexity score of analyze_file_locally is
\* clamp(5 + [classes > 5] + [functions > 10] + [imports > 15] + [lines > 500]
\* - [lines < 50], 1, 10), lines being the number of lines of the content.
C15_ScoreFormula ==
    analyzer_pc = "local" =>
        LET raw == 5 + Bit(Len(analysis.classes) > 5) + Bit(Len(analysis.functions) > 10)
                     + Bit(Len(analysis.imports) > 15) + Bit(content.lines > 500)
                     - Bit(content.lines < 50)
        IN analysis.complexity_score = (IF raw < 1 THEN 1 ELSE IF raw > 10 THEN 10 ELSE raw)

\* A long python file over every threshold, scored 9.
C15_Witness ==
    /\ analyzer_pc = "local"
    /\ Len(analysis.classes) > 5
    /\ Len(analysis.functions) > 10
    /\ Len(analysis.imports) > 15
    /\ content.lines > 500
    /\ analysis.complexity_score = 9

EntityListsEmpty(r) ==
    /\ r.imports = <<>>
    /\ r.exports = <<>>
    /\ r.classes = <<>>
    /\ r.functions = <<>>
    /\ r.constants = <<>>

\* C16 as stated: analyze_file_locally never fails, and for a language hint
\* outside python, javascript and typescript (an absent hint included) the
\* record has empty imports, exports, classes, functions and constants and
\* the purpose "Unknown", for every file path and content.
C16_UnsupportedYieldsUnknown ==
    /\ analyzer_pc = "input" => ENABLED AnalyzeLocally
    /\ (analyzer_pc = "local" /\ language \notin {"python", "javascript", "typescript"}) =>
          /\ EntityListsEmpty(analysis)
          /\ analysis.purpose = "Unknown"

\* C16 amended: analyze_file_locally never fails, and for a language hint
\* outside the supported families the entity lists are all empty; the purpose
\* is the one the keyword in the file's base name gives, and "Unknown" exactly
\* when the base name holds none of the keywords.
C16_UnsupportedYieldsNamePurpose ==
    /\ analyzer_pc = "input" => ENABLED AnalyzeLocally
    /\ (analyzer_pc = "local" /\ language \notin {"python", "javascript", "typescript"}) =>
          /\ EntityListsEmpty(analysis)
          /\ (analysis.purpose = "Unknown") <=> (file_name \cap Keywords = {})
          /\ file_name \cap Keywords # {} =>
                analysis.purpose \in {"Test file", "Configuration", "Data models",
                                      "Utility functions", "Application entry point",
                                      "API endpoints"}
          /\ "test" \in file_name => analysis.purpose = "Test file"

\* A ruby test file whose text holds function-like matches: nothing is
\* extracted and the purpose comes from the name.
C16_Witness ==
    /\ analyzer_pc = "local"
    /\ language = "ruby"
    /\ file_name = {"test"}
    /\ content.functions > 0
    /\ EntityListsEmpty(analysis)
    /\ analysis.purpose = "Test file"

----------------------------------------------------------------------------
(* Claims about identify_modules, checked under ModulesSpec *)

\* The input files with no directory component, and those of a directory.
RootGroup == {i \in 1..Len(analyses) : \A c \in 1..Len(analyses[i].path) : analyses[i].path[c] # "/"}
OtherDirs == {DirPath(analyses[i].path) : i \in 1..Len(analyses) \ RootGroup}
ModulesAt(d) == {k \in 1..Len(modules) : modules[k].path = d}

GivenPurposes(m) ==
    LET members == SelectSeq(analyses, LAMBDA f : \E i \in 1..Len(m.files) : m.files[i] = f.path)
    IN SelectSeq([i \in 1..Len(members) |-> members[i].purpose],
                 LAMBDA q : q # "" /\ q # "Unknown")

Occurrences(seq, v) == Cardinality({i \in 1..Len(seq) : seq[i] = v})
FirstAt(seq, v) == CHOOSE i \in 1..Len(seq) : seq[i] = v /\ \A j \in 1..(i - 1) : seq[j] # v

\* C18: a module's purpose is the purpose occurring most often among the
\* members' non-empty, non-"Unknown" purposes, the first in member order on a
\* tie; with no such purpose it is the fallback naming the member count.
C18_ModulePurpose ==
    modules_pc = "done" =>
        \A k \in 1..Len(modules) :
            LET m == modules[k]
                given == GivenPurposes(m)
            IN IF given = <<>>
               THEN m.purpose = "Module containing " \o ToString(Len(m.files)) \o " files"
               ELSE /\ \E i \in 1..Len(given) : given[i] = m.purpose
                    /\ \A j \in 1..Len(given) :
                          \/ Occurrences(given, given[j]) < Occurrences(given, m.purpose)
                          \/ /\ Occurrences(given, given[j]) = Occurrences(given, m.purpose)
                             /\ FirstAt(given, m.purpose) <= FirstAt(given, given[j])

\* A module of three members whose purposes tie two ways after an "Unknown"
\* one: the purpose that comes first among the two is taken.
C18_Witness ==
    /\ modules_pc = "done"
    /\ Len(modules) = 1
    /\ Len(modules[1].files) = 3
    /\ analyses[1].purpose = "Unknown"
    /\ GivenPurposes(modules[1]) = <<"Test file", "Data models">>
    /\ modules[1].purpose = "Test file"

\* C19: for file records with distinct paths, the modules identify_modules
\* returns have pairwise distinct names.
C19_DistinctNames ==
    modules_pc = "done" =>
        \A j, k \in 1..Len(modules) : j # k => modules[j].name # modules[k].name

MemberCount(path) ==
    Cardinality({<<k, i>> \in (1..Len(modules)) \X (1..MaxFiles + 1) :
                    i <= Len(modules[k].files) /\ modules[k].files[i] = path})

\* C20: for file records with distinct paths, every member path of every
\* module is the path of an input record, no path is a member twice, and every
\* input record is a member of exactly one module unless it belongs to a root
\* group of fewer than 3 files.
C20_MembersPartition ==
    modules_pc = "done" =>
        /\ \A k \in 1..Len(modules) : \A i \in 1..Len(modules[k].files) :
              \E n \in 1..Len(analyses) : analyses[n].path = modules[k].files[i]
        /\ \A n \in 1..Len(analyses) :
              /\ MemberCount(analyses[n].path) <= 1
              /\ ~(n \in RootGroup /\ Cardinality(RootGroup) < 3) =>
                    MemberCount(analyses[n].path) = 1

\* One stray file at the root and two directories, one nested in the other.
C20_Witness ==
    /\ modules_pc = "done"
    /\ Cardinality(RootGroup) = 1
    /\ Len(modules) = 2
    /\ modules[1].path = <<"a">>
    /\ modules[2].path = <<"a", "/", "b">>

----------------------------------------------------------------------------
(* Claims about build_dependency_graph, checked under GraphSpec *)

GraphFiles == 1..Len(graph_analyses)

InputPaths == {graph_analyses[i].path : i \in GraphFiles}

\* The import is one the code treats as local and the file at path could be
\* what it refers to.
ResolvesTo(imp, path) ==
    /\ imp.is_relative \/ ~imp.is_external
    /\ Contains(Splitext(path), Replace(imp.module, ".", "/"))

\* Some class of the file at index i declares a base class that the file at
\* index j defines.
Inherits(i, j) ==
    \E c \in 1..Len(graph_analyses[i].classes) :
        \E b \in 1..Len(graph_analyses[i].classes[c].base_classes) :
            \E m \in 1..Len(graph_analyses[j].classes) :
                graph_analyses[j].classes[m].name = graph_analyses[i].classes[c].base_classes[b]

\* C21: every edge build_dependency_graph returns has a source and a target
\* that are paths of the input file records, is either an "imports" edge of
\* strength "normal" or an "extends" edge of strength "strong", and stands for
\* an import or a base class of the source file that resolves to the target
\* file.
C21_EdgesWithinInput ==
    graph_pc = "done" =>
        \A k \in 1..Len(edges) :
            /\ edges[k].source \in InputPaths
            /\ edges[k].target \in InputPaths
            /\ <<edges[k].relationship_type, edges[k].strength>>
                   \in {<<"imports", "normal">>, <<"extends", "strong">>}
            /\ \E i, j \in GraphFiles :
                  /\ graph_analyses[i].path = edges[k].source
                  /\ graph_analyses[j].path = edges[k].target
                  /\ IF edges[k].relationship_type = "imports"
                     THEN \E m \in 1..Len(graph_analyses[i].imports) :
                              ResolvesTo(graph_analyses[i].imports[m], edges[k].target)
                     ELSE Inherits(i, j)

\* The graph has edges of both kinds although the input holds an external
\* import, a local import no file matches and a base class no file defines.
C21_Witness ==
    /\ graph_pc = "done"
    /\ \E k \in 1..Len(edges) : edges[k].relationship_type = "imports"
    /\ \E k \in 1..Len(edges) : edges[k].relationship_type = "extends"
    /\ \E i \in GraphFiles : \E m \in 1..Len(graph_analyses[i].imports) :
          /\ graph_analyses[i].imports[m].is_external
          /\ ~graph_analyses[i].imports[m].is_relative
    /\ \E i \in GraphFiles : \E m \in 1..Len(graph_analyses[i].imports) :
          /\ ~graph_analyses[i].imports[m].is_external
          /\ \A p \in InputPaths : ~ResolvesTo(graph_analyses[i].imports[m], p)
    /\ \E i \in GraphFiles : \E c \in 1..Len(graph_analyses[i].classes) :
          \E b \in 1..Len(graph_analyses[i].classes[c].base_classes) :
              \A j \in GraphFiles : \A m \in 1..Len(graph_analyses[j].classes) :
                  graph_analyses[j].classes[m].name # graph_analyses[i].classes[c].base_classes[b]

\* The input files an import resolves to, by index.
Candidates(imp) == {j \in GraphFiles : ResolvesTo(imp, graph_analyses[j].path)}

\* The "imports" edges leaving the file at path, in the order they were emitted.
ImportEdgesFrom(path) ==
    SelectSeq(edges, LAMBDA e : e.relationship_type = "imports" /\ e.source = path)

\* C22: the "imports" edges of a file are, in the order of its imports, one
\* edge for each import that is relative or not external and that some input
\* file matches, leading to the first matching file in input order; an
\* external non-relative import, an import nothing matches and the later
\* matching files yield no edge.
C22_FirstMatchOnly ==
    graph_pc = "done" =>
        \A i \in GraphFiles :
            LET resolved == SelectSeq(graph_analyses[i].imports,
                                      LAMBDA imp : Candidates(imp) # {})
            IN ImportEdgesFrom(graph_analyses[i].path) =
                   [k \in 1..Len(resolved) |->
                       DependencyEdge(graph_analyses[i].path,
                                      graph_analyses[Min(Candidates(resolved[k]))].path,
                                      "imports", "normal")]

\* A file with an import that several input files match, together with an
\* external import, has been given its edges.
C22_Witness ==
    /\ graph_pc = "done"
    /\ \E i \in GraphFiles : \E m \in 1..Len(graph_analyses[i].imports) :
          Cardinality(Candidates(graph_analyses[i].imports[m])) >= 2
    /\ \E i \in GraphFiles : \E m \in 1..Len(graph_analyses[i].imports) :
          /\ graph_analyses[i].imports[m].is_external
          /\ ~graph_analyses[i].imports[m].is_relative
          /\ \E j \in GraphFiles :
                Contains(Splitext(graph_analyses[j].path),
                         Replace(graph_analyses[i].imports[m].module, ".", "/"))

\* C23: no "imports" edge leads from a file to itself.
C23_NoSelfImport ==
    graph_pc = "done" =>
        \A k \in 1..Len(edges) :
            edges[k].relationship_type = "imports" => edges[k].source # edges[k].target

\* The number of "extends" edges from the file at index i to the one at j.
ExtendsCount(i, j) ==
    Cardinality({k \in 1..Len(edges) :
                    edges[k] = DependencyEdge(graph_analyses[i].path, graph_analyses[j].path,
                                              "extends", "strong")})

\* The (class, base name, defining class) triples between the files at i and j.
BaseMatches(i, j) ==
    {t \in (1..Len(graph_analyses[i].classes)) \X (1..2) \X (1..Len(graph_analyses[j].classes)) :
        /\ t[2] <= Len(graph_analyses[i].classes[t[1]].base_classes)
        /\ graph_analyses[j].classes[t[3]].name = graph_analyses[i].classes[t[1]].base_classes[t[2]]}

\* C24: between two different files there is one "extends"/"strong" edge for
\* every class of the first, every base-class name it declares and every
\* class of that name in the second; no "extends" edge leads from a file to
\* itself, and there are no other "extends" edges.
C24_ExtendsAllMatches ==
    graph_pc = "done" =>
        /\ \A i, j \in GraphFiles :
              ExtendsCount(i, j) = IF i = j THEN 0 ELSE Cardinality(BaseMatches(i, j))
        /\ \A k \in 1..Len(edges) :
              edges[k].relationship_type = "extends" =>
                  \E i, j \in GraphFiles :
                      edges[k] = DependencyEdge(graph_analyses[i].path, graph_analyses[j].path,
                                                "extends", "strong")

\* A base-class name is defined in two other files and both got an edge, and
\* some file defines a base class of one of its own classes.
C24_Witness ==
    /\ graph_pc = "done"
    /\ \E i, j, h \in GraphFiles :
          /\ i # j /\ i # h /\ j # h
          /\ \E t \in BaseMatches(i, j) : \E u \in BaseMatches(i, h) :
                t[1] = u[1] /\ t[2] = u[2]
          /\ ExtendsCount(i, j) >= 1 /\ ExtendsCount(i, h) >= 1
    /\ \E i \in GraphFiles : BaseMatches(i, i) # {}

----------------------------------------------------------------------------
(* Claims about run_file_analysis, checked under FileRunSpec *)

\* The records of the result list that carry the path of file_cls.
RecordsFor(file_cls) ==
    SelectSeq(analysis_results, LAMBDA r : r.path = file_cls.path)

\* C25: when run_file_analysis returns, every analyzable file that could be
\* read, empty ones included, has exactly one record in the result: a record
\* parsed from the output of the file's own work item, or else the local
\* analysis of that file.
C25_OneRecordPerReadableFile ==
    run_pc = "done" =>
        \A k \in 1..Len(analyzable_files) :
            Readable(analyzable_files[k]) =>
                /\ Len(RecordsFor(analyzable_files[k])) = 1
                /\ LET r == RecordsFor(analyzable_files[k])[1]
                   IN /\ r.task_name = SubagentTask(analyzable_files[k]).name
                      /\ r.content = analyzable_files[k].on_disk
                      /\ r.built_by = "parse_llm_analysis" => r.llm_output = OutputOf(r.task_name)

\* C28: every record of the result list was built with the path, the language
\* and the content of the file whose work item produced the outcome it was
\* built from.
C28_RecordFromOwnFile ==
    \A k \in 1..Len(analysis_results) :
        \E f \in 1..Len(analyzable_files) :
            /\ Readable(analyzable_files[f])
            /\ analysis_results[k].task_name = SubagentTask(analyzable_files[f]).name
            /\ analysis_results[k].path = analyzable_files[f].path
            /\ analysis_results[k].language = analyzable_files[f].language
            /\ analysis_results[k].content = analyzable_files[f].on_disk

----------------------------------------------------------------------------
(* Claims about invocations, slots and the callback, under Spec and RunParallelSpec *)

\* C26: the provider is invoked at most once for a work item during a call,
\* exactly once for an item that is done, and an invocation that raised is
\* reported as that item's failure, carrying the error, without a second
\* invocation.
C26_InvokedAtMostOnce ==
    \A i \in Items :
        /\ invocations[i] <= 1
        /\ st[i] = "done" => invocations[i] = 1
        /\ (returned /\ outcomeOf[i] = "err" /\ ~gathered[i].raised) =>
               final_results[i] = SubagentResult(tasks[i], FALSE, NoneVal, ErrorOf(tasks[i]))

\* A call has returned in which one invocation raised while a later item still
\* ran, each item invoked once.
C26_Witness ==
    /\ returned
    /\ \E i, j \in Items :
          /\ outcomeOf[i] = "err"
          /\ ~final_results[i].success
          /\ invocations[i] = 1
          /\ \E a, b \in 1..Len(doneOrder) : a < b /\ doneOrder[a] = i /\ doneOrder[b] = j

\* C27: under a fair event loop and a provider whose invocations all end, a
\* run_parallel call eventually has returned, every item having obtained a
\* slot, been invoked and received an outcome.
C27_RunParallelReturns ==
    <>(/\ returned
       /\ \A i \in Items :
             st[i] = "done" /\ invocations[i] = 1 /\ outcomeOf[i] \in ProviderOutcomes)

\* A call over more items than slots has returned, so some item had to wait
\* for a slot another item released.
C27_Witness ==
    /\ returned
    /\ N > max_concurrent
    /\ \A i \in Items : st[i] = "done" /\ invocations[i] = 1

\* C29: the free slots and the items holding a slot always add up to
\* max_concurrent; once run_parallel has returned every slot is free, whether
\* the items succeeded or failed.
C29_SlotsConserved ==
    /\ semaphore + Cardinality(InFlight) = max_concurrent
    /\ returned => semaphore = max_concurrent

\* In a later batch on the same coordinator, after an item of this batch
\* failed, as many items hold a slot as the cap allows.
C29_Witness ==
    /\ batchNo > 1
    /\ \E i \in Items : st[i] = "done" /\ outcomeOf[i] = "err"
    /\ Cardinality(InFlight) = max_concurrent
    /\ semaphore = 0
    /\ \E i \in Items : st[i] = "waiting"

\* C30: the callback is called for every item that completes, also after a
\* call of it raised, and when run_parallel returns every item whose provider
\* invocation returned an output is reported as a success carrying it.
C30_CallbackExceptionHarmless ==
    /\ progress_callback = "given" => Len(cbCalls) = Len(doneOrder)
    /\ returned =>
           \A i \in Items :
               outcomeOf[i] = "ok" =>
                   final_results[i] = SubagentResult(tasks[i], TRUE, OutputOf(tasks[i]), NoneVal)
====
